---- MODULE Spec2Model ----
(***************************************************************************)
(* Model of packages/react-use-query-params/src/useQueryParams.ts:         *)
(* the process-wide listener registry, the interception of               *)
(* history.pushState / history.replaceState / popstate, the per-hook       *)
(* read-set ("watching"), the change detector ("handle") and the writers   *)
(* (setLocation, mergeParams, setParams, removeParams).                    *)
(*                                                                         *)
(* A URL is a record [protocol, host, path, query]; a path is the          *)
(* sequence of its segments after the leading "/", a query is the          *)
(* sequence of its <<key, value>> pairs in query-string order.             *)
(***************************************************************************)
EXTENDS Naturals, Sequences, FiniteSets, TLC

\* ---------------------------------------------------------------- bounds

Keys == {"tomato", "potato"}
Vals == {"RED", "GREEN"}
\* the key=value pairs a query is built from
Pairs == {<<"tomato", "RED">>, <<"tomato", "GREEN">>, <<"potato", "RED">>}
\* the hook instances (components calling useQueryParams)
Subs == {"A", "B"}

\* longest query (number of key=value pairs) a navigation may produce
MaxPairs == 2
\* most entries the session history may hold
MaxHist == 2

PageProtocol == "https:"
PageHost == "app.example"
Protocols == {"https:", "http:"}
Hosts == {"app.example", "other.example"}
Paths == {<<"x">>, <<"a", "x">>}

QueriesUpTo(n) == UNION {[1..m -> Pairs] : m \in 0..n}
Queries == QueriesUpTo(MaxPairs)
ValueLists == UNION {[1..m -> Vals] : m \in 0..MaxPairs}

VARIABLES
    hist,       \* session history: sequence of same-origin entries [path, query]
    idx,        \* index of the current entry; window.location is hist[idx]
    listeners,  \* the module-level Set of handle callbacks, in insertion order
    status,     \* per hook instance: "unmounted", "rendered" (effect not yet run), "subscribed"
    watching,   \* per hook instance: watching.current, key -> values recorded at read time
    snap,       \* per hook instance: the query of the memoised urlSearchParams of its last render
    pending,    \* per hook instance: rerender() was dispatched and the render has not run yet
    lastPass,   \* the last notification pass: the query its listeners saw, the listeners invoked, what the
                \* native function returned and what the wrapper returned; seq flips at every pass
    assigned,   \* the URL assigned to window.location.href (the page is left), or <<>>
    lastWrite   \* the last call of a writer of the hook: which one, its queryParams and replace
                \* arguments, the nextURL it handed to the body of setLocation; n flips at every call
VARIABLES
    wrappers,   \* how many times the module was evaluated: each evaluation wraps history.pushState
                \* and history.replaceState once more, adds a popstate listener and has a Set of its own
    home        \* per hook instance: the evaluation of the module whose useQueryParams it calls

vars == <<hist, idx, listeners, status, watching, snap, pending, lastPass, assigned, lastWrite,
          wrappers, home>>

\* ------------------------------------------------------- URLSearchParams

\* URLSearchParams.getAll(key): the values of key, in query order
RECURSIVE getAll(_, _)
getAll(q, k) ==
    IF q = <<>> THEN <<>>
    ELSE (IF Head(q)[1] = k THEN <<Head(q)[2]>> ELSE <<>>) \o getAll(Tail(q), k)

\* URLSearchParams.has(key)
has(q, k) == \E i \in 1..Len(q) : q[i][1] = k

\* a delete that drops the first pair of key alone
delete_FirstOnly(q, k) ==
    IF has(q, k)
    THEN LET i == CHOOSE i \in 1..Len(q) : q[i][1] = k /\ \A j \in 1..(i - 1) : q[j][1] # k
         IN SubSeq(q, 1, i - 1) \o SubSeq(q, i + 1, Len(q))
    ELSE q

\* URLSearchParams.delete(key): drops every pair of key, keeps the others in place
delete(q, k) == SelectSeq(q, LAMBDA p : p[1] # k)

\* URLSearchParams.append(key, value)
append(q, k, v) == Append(q, <<k, v>>)

\* the keys urlSearchParams.entries() yields
entryKeys(q) == {q[i][1] : i \in 1..Len(q)}

\* ------------------------------------------------------------- location

CurrentEntry == hist[idx]
CurrentQuery == hist[idx].query
CurrentURL ==
    [protocol |-> PageProtocol, host |-> PageHost,
     path |-> hist[idx].path, query |-> hist[idx].query]

\* --------------------------------------------------------------- writers

\* An InputParams value: an array of strings, or a single string.
InputValues ==
    [arr : {TRUE}, values : ValueLists] \cup [arr : {FALSE}, values : Vals]

\* Array.isArray(values) ? values : [values]
usableValues(input) == IF input.arr THEN input.values ELSE <<input.values>>

\* the entries of an InputParams object whose key=value pairs are in Pairs
MappingEntries ==
    {e \in [key : Keys, input : InputValues] :
        \A i \in 1..Len(usableValues(e.input)) : <<e.key, usableValues(e.input)[i]>> \in Pairs}

\* An InputParams object: its entries in Object.entries order, keys distinct.
Mappings ==
    {m \in UNION {[1..n -> MappingEntries] : n \in 0..Cardinality(Keys)} :
        \A i, j \in 1..Len(m) : m[i].key = m[j].key => i = j}

\* for (const value of usableValues) url.searchParams.append(key, value)
RECURSIVE appendEach(_, _, _)
appendEach(q, k, values) ==
    IF values = <<>> THEN q
    ELSE appendEach(append(q, k, Head(values)), k, Tail(values))

\* an iteration that appends the values without url.searchParams.delete(key)
appendEntry_NoDelete(q, e) == appendEach(q, e.key, usableValues(e.input))

\* one iteration of the loop of appendQueryParamsToURL
appendEntry(q, e) == appendEach(delete(q, e.key), e.key, usableValues(e.input))

\* appendQueryParamsToURL, on the query of the url
RECURSIVE appendQueryParamsToURL(_, _)
appendQueryParamsToURL(q, m) ==
    IF m = <<>> THEN q
    ELSE appendQueryParamsToURL(appendEntry(q, Head(m)), Tail(m))

Front(seq) == SubSeq(seq, 1, Len(seq) - 1)
Last(seq) == seq[Len(seq)]

\* The url argument of makeLocation, by the branch it takes:
\*   "full": contains http:// or https://, parsed by new URL(url)
\*   "abs" : starts with "/", path and query replace those of the page
\*   "rel" : anything else; path holds the one segment given ("" when none)
TargetQueries == {<<>>, <<<<"potato", "RED">>>>}
StringTargets ==
    [kind : {"full"}, protocol : Protocols, host : Hosts, path : Paths, query : TargetQueries]
    \cup [kind : {"abs"}, protocol : {PageProtocol}, host : {PageHost}, path : Paths, query : TargetQueries]
    \cup [kind : {"rel"}, protocol : {PageProtocol}, host : {PageHost}, path : {<<"">>, <<"x">>}, query : TargetQueries]

\* the URL the nextURL IIFE of makeLocation builds, before the params are applied
baseURL(cur, t) ==
    IF t.kind = "full"
    THEN [protocol |-> t.protocol, host |-> t.host, path |-> t.path, query |-> t.query]
    ELSE IF t.kind = "abs"
    THEN [cur EXCEPT !.path = t.path, !.query = t.query]
    ELSE [cur EXCEPT !.path = Front(cur.path) \o <<IF t.path[1] # "" THEN t.path[1] ELSE Last(cur.path)>>,
                     !.query = t.query]

\* makeLocation(url, queryParams)
makeLocation(cur, t, m) ==
    LET nextURL == baseURL(cur, t)
    IN [nextURL EXCEPT !.query = appendQueryParamsToURL(nextURL.query, m)]

\* new URL(window.location.href).href, as passed back to makeLocation: a full URL
hrefOf(u) == [kind |-> "full", protocol |-> u.protocol, host |-> u.host, path |-> u.path, query |-> u.query]

\* ------------------------------------------------------------- read-set

\* watching.current = {}
NoWatch == [k \in {} |-> <<>>]

\* watch(key): a key already recorded keeps its recorded values; a new key
\* records what the memoised urlSearchParams of the render holds for it
watch(w, params, k) ==
    IF k \in DOMAIN w THEN w
    ELSE [x \in DOMAIN w \cup {k} |-> IF x = k THEN getAll(params, k) ELSE w[x]]

\* watch(key) for each key of a set (the calls are independent of their order)
watchEach(w, params, ks) ==
    [x \in DOMAIN w \cup ks |-> IF x \in DOMAIN w THEN w[x] ELSE getAll(params, x)]

\* the comparison of handle for one watched key: a different length, or a
\* different value at some index
valuesDiffer(currentValues, values) ==
    \/ Len(currentValues) # Len(values)
    \/ \E i \in 1..Len(currentValues) : currentValues[i] # values[i]

\* a detector that also fires on an empty read-set
shouldRerender_OnEmpty(w, currentParams) ==
    \/ DOMAIN w = {}
    \/ \E k \in DOMAIN w : valuesDiffer(getAll(currentParams, k), w[k])

\* shouldRerender as handle computes it over Object.entries(watching.current)
shouldRerender(w, currentParams) ==
    \E k \in DOMAIN w : valuesDiffer(getAll(currentParams, k), w[k])

\* a handle that calls rerender() without clearWatch()
handle_KeepsWatch(w, currentParams) ==
    IF shouldRerender(w, currentParams)
    THEN [watching |-> w, rerender |-> TRUE]
    ELSE [watching |-> w, rerender |-> FALSE]

\* handle(): the read-set it leaves and whether it called rerender()
handle(w, currentParams) ==
    IF shouldRerender(w, currentParams)
    THEN [watching |-> NoWatch, rerender |-> TRUE]
    ELSE [watching |-> w, rerender |-> FALSE]

\* ----------------------------------------------------- history interception

InSeq(x, seq) == \E i \in 1..Len(seq) : seq[i] = x

\* listeners.forEach: the callbacks invoked, in insertion order
runListeners(ls) == ls

\* a wrapper that runs the listeners before the native call
searchAtNotify_BeforeNative(before, after) == before

\* what window.location.search holds when the listeners run: the wrapper calls
\* func.apply(history, args) before runListeners()
searchAtNotify(before, after) == after

\* the value the wrapper returns, given what the wrapped function returned
returnedValue(native) == native

\* what the wrapped history.pushState / replaceState returns: undefined for the
\* browser's own, anything for a function other code had installed before
NativeResults == {"undefined", "wrapped"}

\* native history.pushState: entries after the current one are dropped
nativePushState(h, i, entry) == [hist |-> Append(SubSeq(h, 1, i), entry), idx |-> i + 1]

\* native history.replaceState
nativeReplaceState(h, i, entry) == [hist |-> [h EXCEPT ![i] = entry], idx |-> i]

Unloaded == assigned # <<>>

\* one Set shared by every evaluation of the module
registry_Shared(c) == listeners

\* the Set of the c-th evaluation of the module: the callbacks of the hook
\* instances that call its useQueryParams, in insertion order
registry(c) == SelectSeq(listeners, LAMBDA s : home[s] = c)

\* The callbacks one call or one popstate event invokes: the wrapper of each
\* evaluation wraps the function it found, so the innermost (first) runs its
\* listeners first, each over the Set of its own evaluation.
RECURSIVE passOf(_)
passOf(n) == IF n = 0 THEN <<>> ELSE passOf(n - 1) \o runListeners(registry(n))

\* the callbacks of seq up to and including the first one of faulty:
\* listeners.forEach has no try / catch, a callback that throws ends it
RECURSIVE upToFirst(_, _)
upToFirst(seq, faulty) ==
    IF seq = <<>> THEN <<>>
    ELSE IF Head(seq) \in faulty THEN <<Head(seq)>>
    ELSE <<Head(seq)>> \o upToFirst(Tail(seq), faulty)

\* what the caller of the wrapper gets when a callback threw: the exception
\* leaves runListeners and the wrapper, return returnedValue is not reached
Outcome(native, failed) == IF failed = {} THEN returnedValue(native) ELSE "exception"

\* The state after one notification pass in which the callbacks of faulty
\* throw when they are invoked (before they have done anything).
NotifyWith(before, after, native, faulty) ==
    LET invoked == upToFirst(passOf(wrappers), faulty)
        seen == searchAtNotify(before, after)
        failed == {s \in faulty : InSeq(s, invoked)}
        ran(s) == InSeq(s, invoked) /\ s \notin failed
    IN /\ watching' = [s \in Subs |->
                         IF ran(s) THEN handle(watching[s], seen).watching
                         ELSE watching[s]]
       /\ pending' = [s \in Subs |->
                         IF ran(s) /\ handle(watching[s], seen).rerender
                         THEN TRUE ELSE pending[s]]
       /\ lastPass' = [seq |-> 1 - lastPass.seq, seen |-> seen, invoked |-> invoked,
                       native |-> native, returned |-> Outcome(native, failed),
                       failed |-> failed]

\* the state after one notification pass
Notify(before, after, native) == NotifyWith(before, after, native, {})

\* the wrapper intercept(func) installs: native call, runListeners, return
interceptWith(replace, entry, native, faulty) ==
    LET nat == IF replace THEN nativeReplaceState(hist, idx, entry)
               ELSE nativePushState(hist, idx, entry)
    IN /\ ~replace => idx < MaxHist
       /\ Len(entry.query) <= MaxPairs
       /\ hist' = nat.hist
       /\ idx' = nat.idx
       /\ NotifyWith(CurrentQuery, entry.query, native, faulty)
       /\ UNCHANGED <<listeners, status, snap, assigned, wrappers, home>>

\* the wrapper, when no callback throws
intercept(replace, entry, native) == interceptWith(replace, entry, native, {})

\* history.pushState called by code outside the hook
pushState(entry, native) ==
    /\ ~Unloaded
    /\ intercept(FALSE, entry, native)
    /\ UNCHANGED lastWrite

\* history.replaceState called by code outside the hook
replaceState(entry, native) ==
    /\ ~Unloaded
    /\ intercept(TRUE, entry, native)
    /\ UNCHANGED lastWrite

\* history.pushState or history.replaceState called by other code while the
\* callback of the registered component f throws when it is invoked
callThrowing(replace, entry, f) ==
    /\ ~Unloaded
    /\ InSeq(f, listeners)
    /\ interceptWith(replace, entry, "undefined", {f})
    /\ UNCHANGED lastWrite

\* a page without the popstate listener: the browser moves, nobody is told
popstate_Unobserved(d) ==
    /\ ~Unloaded
    /\ idx + d - 1 \in 1..Len(hist)
    /\ idx' = idx + d - 1
    /\ hist' = hist
    /\ UNCHANGED <<listeners, status, watching, snap, pending, lastPass, assigned, lastWrite, wrappers, home>>

\* the popstate listener: the browser moved back (d = 0) or forward (d = 2)
popstate(d) ==
    /\ ~Unloaded
    /\ idx + d - 1 \in 1..Len(hist)
    /\ idx' = idx + d - 1
    /\ hist' = hist
    /\ Notify(CurrentQuery, hist[idx + d - 1].query, "undefined")
    /\ UNCHANGED <<listeners, status, snap, assigned, lastWrite, wrappers, home>>

\* most evaluations of the module on one page
MaxLoads == 2

\* The module is evaluated once more (a second copy in the bundle, a reload
\* of the module): a new listeners Set, and the IIFE wraps the current
\* history.pushState / replaceState and adds another popstate listener.
loadModule ==
    /\ ~Unloaded
    /\ wrappers < MaxLoads
    /\ wrappers' = wrappers + 1
    /\ UNCHANGED <<hist, idx, listeners, status, watching, snap, pending, lastPass, assigned,
                   lastWrite, home>>

\* --------------------------------------------------------------- the hook

\* the hook body runs (mount or re-render); the component reads the keys in
\* reads through getParam / getParams / hasParam and, when enumerate, allParams
Render(s, reads, enumerate) ==
    /\ ~Unloaded
    /\ status[s] \in {"unmounted", "subscribed"}
    /\ snap' = [snap EXCEPT ![s] = CurrentQuery]
    /\ watching' = [watching EXCEPT ![s] =
            watchEach(@, CurrentQuery,
                      reads \cup (IF enumerate THEN entryKeys(CurrentQuery) ELSE {}))]
    /\ pending' = [pending EXCEPT ![s] = FALSE]
    /\ status' = [status EXCEPT ![s] = IF @ = "unmounted" THEN "rendered" ELSE @]
    /\ \E c \in 1..wrappers :
         home' = [home EXCEPT ![s] = IF status[s] = "unmounted" THEN c ELSE @]
    /\ UNCHANGED <<hist, idx, listeners, lastPass, assigned, lastWrite, wrappers>>

\* the effect of the mount: listeners.add(handle)
Effect(s) ==
    /\ ~Unloaded
    /\ status[s] = "rendered"
    /\ status' = [status EXCEPT ![s] = "subscribed"]
    /\ listeners' = IF InSeq(s, listeners) THEN listeners ELSE Append(listeners, s)
    /\ UNCHANGED <<hist, idx, watching, snap, pending, lastPass, assigned, lastWrite, wrappers, home>>

\* a cleanup that leaves the callback in the registry
Unmount_KeepsListener(s) ==
    /\ ~Unloaded
    /\ status[s] = "subscribed"
    /\ status' = [status EXCEPT ![s] = "unmounted"]
    /\ listeners' = listeners
    /\ watching' = [watching EXCEPT ![s] = NoWatch]
    /\ snap' = [snap EXCEPT ![s] = <<>>]
    /\ pending' = [pending EXCEPT ![s] = FALSE]
    /\ UNCHANGED <<hist, idx, lastPass, assigned, lastWrite, wrappers, home>>

\* the cleanup of the effect: listeners.delete(handle); the instance is gone
Unmount(s) ==
    /\ ~Unloaded
    /\ status[s] = "subscribed"
    /\ status' = [status EXCEPT ![s] = "unmounted"]
    /\ listeners' = SelectSeq(listeners, LAMBDA x : x # s)
    /\ watching' = [watching EXCEPT ![s] = NoWatch]
    /\ snap' = [snap EXCEPT ![s] = <<>>]
    /\ pending' = [pending EXCEPT ![s] = FALSE]
    /\ UNCHANGED <<hist, idx, lastPass, assigned, lastWrite, wrappers, home>>

\* getParam / getParams / hasParam called after the render (an event handler):
\* the closure of the last render, so its memoised urlSearchParams
ReadLater(s, k) ==
    /\ ~Unloaded
    /\ status[s] = "subscribed"
    /\ watching' = [watching EXCEPT ![s] = watch(@, snap[s], k)]
    /\ UNCHANGED <<hist, idx, listeners, status, snap, pending, lastPass, assigned, lastWrite, wrappers, home>>

\* a body of setLocation that ignores replace
navigate_AlwaysPush(nextURL, replace, native) ==
    LET sameOrigin == nextURL.host = PageHost /\ nextURL.protocol = PageProtocol
    IN IF sameOrigin
       THEN intercept(FALSE, [path |-> nextURL.path, query |-> nextURL.query], native)
       ELSE /\ assigned' = nextURL
            /\ UNCHANGED <<hist, idx, listeners, status, watching, snap, pending, lastPass, wrappers, home>>

\* a body of setLocation that compares the host alone
navigate_HostOnly(nextURL, replace, native) ==
    LET sameOrigin == nextURL.host = PageHost
    IN IF sameOrigin
       THEN intercept(replace, [path |-> nextURL.path, query |-> nextURL.query], native)
       ELSE /\ assigned' = nextURL
            /\ UNCHANGED <<hist, idx, listeners, status, watching, snap, pending, lastPass, wrappers, home>>

\* the body of setLocation once nextURL is known: the history API for a
\* same-origin nextURL, an assignment of window.location.href otherwise
navigate(nextURL, replace, native) ==
    LET sameOrigin == nextURL.host = PageHost /\ nextURL.protocol = PageProtocol
    IN IF sameOrigin
       THEN intercept(replace, [path |-> nextURL.path, query |-> nextURL.query], native)
       ELSE /\ assigned' = nextURL
            /\ UNCHANGED <<hist, idx, listeners, status, watching, snap, pending, lastPass, wrappers, home>>

\* the writers are returned by the hook: some component has rendered
Mounted == \E s \in Subs : status[s] # "unmounted"

\* the record of a call of a writer that returned: arg is its queryParams
\* (paramKeys for removeParams)
Written(op, arg, replace, nextURL) ==
    lastWrite' = [n |-> 1 - lastWrite.n, op |-> op, arg |-> arg, replace |-> replace,
                  nextURL |-> nextURL, threw |-> FALSE]

\* no URL: the nextURL of a call in which new URL(url) threw
NoURL == <<>>

\* the record of a call of a writer out of which an exception propagated to
\* the caller before a nextURL existed
Threw(op, arg, replace) ==
    lastWrite' = [n |-> 1 - lastWrite.n, op |-> op, arg |-> arg, replace |-> replace,
                  nextURL |-> NoURL, threw |-> TRUE]

\* url strings with http:// or https:// in them that new URL(url) rejects, such
\* as 'https://' or the relative 'x?next=http://other.example'
MalformedTargets ==
    [kind : {"malformed"}, protocol : {PageProtocol}, host : {PageHost}, path : {<<"x">>},
     query : TargetQueries]

\* setLocation(url: string, queryParams, replace)
\* makeLocation has no try / catch and neither has setLocation: the TypeError
\* of new URL(url) leaves setLocation before anything else is done
setLocation(t, m, replace, native) ==
    /\ ~Unloaded /\ Mounted
    /\ IF t.kind = "malformed"
       THEN /\ Threw("setLocation", m, replace)
            /\ UNCHANGED <<hist, idx, listeners, status, watching, snap, pending, lastPass,
                           assigned, wrappers, home>>
       ELSE /\ navigate(makeLocation(CurrentURL, t, m), replace, native)
            /\ Written("setLocation", m, replace, makeLocation(CurrentURL, t, m))

\* setLocation(url: URL, queryParams, replace): nextURL is url, queryParams is not applied
setLocationURL(u, m, replace, native) ==
    /\ ~Unloaded /\ Mounted
    /\ navigate(u, replace, native)
    /\ Written("setLocation", m, replace, u)

\* the nextURL of mergeParams: makeLocation(window.location.href, queryParams)
mergeParamsURL(cur, m) == makeLocation(cur, hrefOf(cur), m)

\* mergeParams(queryParams, replace)
mergeParams(m, replace, native) ==
    /\ ~Unloaded /\ Mounted
    /\ navigate(mergeParamsURL(CurrentURL, m), replace, native)
    /\ Written("mergeParams", m, replace, mergeParamsURL(CurrentURL, m))

\* a setParams that leaves url.search as it is
setParamsURL_KeepSearch(cur, m) == makeLocation(cur, hrefOf(cur), m)

\* the nextURL of setParams: the page's URL with url.search = '', then
\* makeLocation(url.href, queryParams)
setParamsURL(cur, m) == makeLocation(cur, hrefOf([cur EXCEPT !.query = <<>>]), m)

\* setParams(queryParams, replace)
setParams(m, replace, native) ==
    /\ ~Unloaded /\ Mounted
    /\ navigate(setParamsURL(CurrentURL, m), replace, native)
    /\ Written("setParams", m, replace, setParamsURL(CurrentURL, m))

\* paramKeys of removeParams, as an array of keys
KeyLists == {<<>>, <<"tomato">>, <<"potato">>, <<"tomato", "potato">>}

\* paramKeys of removeParams in its three forms: one key, an array of keys,
\* an object key -> boolean (its entries in Object.entries order)
ParamKeys ==
    [form : {"key"}, key : Keys]
    \cup [form : {"list"}, keys : KeyLists]
    \cup [form : {"object"},
          entries : {<<>>} \cup {<<[key |-> "tomato", value |-> b]>> : b \in BOOLEAN}
                    \cup {<<[key |-> "potato", value |-> b], [key |-> "tomato", value |-> c]>> :
                             b, c \in BOOLEAN}]

\* the keys of an array of entries, in order
RECURSIVE keysOf(_)
keysOf(es) == IF es = <<>> THEN <<>> ELSE <<Head(es).key>> \o keysOf(Tail(es))

\* a usableKeys that keeps the keys whose value is false
usableKeys_Unfiltered(pk) ==
    IF pk.form = "list" THEN pk.keys
    ELSE IF pk.form = "object" THEN keysOf(pk.entries)
    ELSE <<pk.key>>

\* usableKeys of removeParams
usableKeys(pk) ==
    IF pk.form = "list" THEN pk.keys
    ELSE IF pk.form = "object" THEN keysOf(SelectSeq(pk.entries, LAMBDA e : e.value))
    ELSE <<pk.key>>

\* for (const key of usableKeys) url.searchParams.delete(key)
RECURSIVE deleteEach(_, _)
deleteEach(q, ks) ==
    IF ks = <<>> THEN q ELSE deleteEach(delete(q, Head(ks)), Tail(ks))

\* the url removeParams hands to setLocation
removeParamsURL(cur, ks) == [cur EXCEPT !.query = deleteEach(cur.query, ks)]

\* removeParams(paramKeys, replace)
removeParams(pk, replace, native) ==
    /\ ~Unloaded /\ Mounted
    /\ navigate(removeParamsURL(CurrentURL, usableKeys(pk)), replace, native)
    /\ Written("removeParams", pk, replace, removeParamsURL(CurrentURL, usableKeys(pk)))

\* A function passed to setParams as queryParams: params => ({...params, [sets]: to}),
\* called by the component by.
Updaters == [by : {"A"}, sets : Keys, to : Vals]

\* Object.entries(queryParams) when queryParams is a function: a function has
\* no own enumerable property, and nothing calls it
functionEntries(u) == <<>>

\* setParams(updater, replace): the function goes through setLocation and
\* makeLocation to appendQueryParamsToURL as the queryParams object
setParamsUpdater(u, replace, native) ==
    /\ ~Unloaded /\ status[u.by] # "unmounted"
    /\ navigate(setParamsURL(CurrentURL, functionEntries(u)), replace, native)
    /\ Written("setParamsUpdater", u, replace, setParamsURL(CurrentURL, functionEntries(u)))

\* ------------------------------------------------------------ the system

NoWrite ==
    [n |-> 0, op |-> "none", arg |-> <<>>, replace |-> FALSE,
     nextURL |-> [protocol |-> PageProtocol, host |-> PageHost, path |-> <<"">>, query |-> <<>>],
     threw |-> FALSE]

InitWith(entries) ==
    /\ \E e \in entries : hist = <<e>>
    /\ idx = 1
    /\ listeners = <<>>
    /\ status = [s \in Subs |-> "unmounted"]
    /\ watching = [s \in Subs |-> NoWatch]
    /\ snap = [s \in Subs |-> <<>>]
    /\ pending = [s \in Subs |-> FALSE]
    /\ lastPass = [seq |-> 0, seen |-> <<>>, invoked |-> <<>>,
                   native |-> "undefined", returned |-> "undefined", failed |-> {}]
    /\ assigned = <<>>
    /\ lastWrite = NoWrite
    /\ wrappers = 1
    /\ home = [s \in Subs |-> 1]

\* no writer has been called
NoWriteYet == lastWrite.n = 0

\* Spec: one component on one page path, navigations to every query of at
\* most MaxPairs pairs by code outside the hook and by back / forward.
HookEntries == [path : {<<"x">>}, query : Queries]

Init == InitWith(HookEntries)

Next ==
    \/ \E e \in HookEntries : pushState(e, "undefined")
    \/ \E e \in HookEntries : replaceState(e, "undefined")
    \/ \E d \in {0, 2} : popstate(d)
    \/ \E reads \in SUBSET Keys, enumerate \in BOOLEAN : Render("A", reads, enumerate)
    \/ Effect("A")
    \/ Unmount("A")
    \/ \E k \in Keys : ReadLater("A", k)

Spec == Init /\ [][Next]_vars

\* SpecWrite: the writers of the query as functions of the page URL and the
\* mapping. Init draws the URL, one component mounts, and setParams or
\* mergeParams is applied to that URL once, with every mapping.
WriteEntries == [path : Paths, query : Queries]

InitWrite == InitWith(WriteEntries)

NextWrite ==
    \/ status["A"] = "unmounted" /\ Render("A", {}, FALSE)
    \/ Effect("A")
    \/ NoWriteYet /\ \E m \in Mappings, replace \in BOOLEAN : setParams(m, replace, "undefined")
    \/ NoWriteYet /\ \E m \in Mappings, replace \in BOOLEAN : mergeParams(m, replace, "undefined")

SpecWrite == InitWrite /\ [][NextWrite]_vars

\* SpecLocation: setLocation and the other writers applied once to a page
\* with any history of at most MaxHist entries, with same-origin and
\* cross-origin targets.
LocationEntries == [path : Paths, query : QueriesUpTo(1)]

\* the mappings of at most one entry with one value
SmallMappings ==
    {m \in Mappings : Len(m) <= 1 /\ \A i \in 1..Len(m) : Len(usableValues(m[i].input)) = 1}

\* the url argument of setLocation when it is a URL object
URLObjects == [protocol : Protocols, host : Hosts, path : {<<"x">>}, query : TargetQueries]

\* the mappings { } and {tomato: <a string>}
TomatoMappings ==
    {m \in SmallMappings : \A i \in 1..Len(m) : m[i].key = "tomato" /\ ~m[i].input.arr}

InitLocation ==
    /\ hist \in UNION {[1..n -> LocationEntries] : n \in 1..MaxHist}
    /\ idx \in 1..Len(hist)
    /\ listeners = <<>>
    /\ status = [s \in Subs |-> "unmounted"]
    /\ watching = [s \in Subs |-> NoWatch]
    /\ snap = [s \in Subs |-> <<>>]
    /\ pending = [s \in Subs |-> FALSE]
    /\ lastPass = [seq |-> 0, seen |-> <<>>, invoked |-> <<>>,
                   native |-> "undefined", returned |-> "undefined", failed |-> {}]
    /\ assigned = <<>>
    /\ lastWrite = NoWrite
    /\ wrappers = 1
    /\ home = [s \in Subs |-> 1]

NextLocation ==
    \/ status["A"] = "unmounted" /\ \E reads \in SUBSET {"tomato"} : Render("A", reads, FALSE)
    \/ Effect("A")
    \/ NoWriteYet /\ \E t \in StringTargets, m \in TomatoMappings, replace \in BOOLEAN :
                        setLocation(t, m, replace, "undefined")
    \/ NoWriteYet /\ \E u \in URLObjects, m \in TomatoMappings, replace \in BOOLEAN :
                        setLocationURL(u, m, replace, "undefined")
    \/ NoWriteYet /\ \E m \in SmallMappings, replace \in BOOLEAN : setParams(m, replace, "undefined")
    \/ NoWriteYet /\ \E m \in SmallMappings, replace \in BOOLEAN : mergeParams(m, replace, "undefined")
    \/ NoWriteYet /\ \E ks \in KeyLists, replace \in BOOLEAN :
                        removeParams([form |-> "list", keys |-> ks], replace, "undefined")

SpecLocation == InitLocation /\ [][NextLocation]_vars

\* SpecRegistry: two components that read tomato or nothing, and calls of
\* history.pushState / replaceState by other code and by setParams of
\* {tomato: 'GREEN'}, over the queries that hold at most one value of tomato.
RegistryEntries ==
    [path : {<<"x">>}, query : {q \in QueriesUpTo(1) : ~has(q, "potato")}]

\* the mapping {tomato: 'GREEN'}
GreenTomato == <<[key |-> "tomato", input |-> [arr |-> FALSE, values |-> "GREEN"]]>>

InitRegistry == InitWith(RegistryEntries)

NextRegistry ==
    \/ \E s \in Subs, reads \in SUBSET {"tomato"} : Render(s, reads, FALSE)
    \/ \E s \in Subs : Effect(s)
    \/ \E s \in Subs : Unmount(s)
    \/ \E e \in RegistryEntries, native \in NativeResults : pushState(e, native)
    \/ \E e \in RegistryEntries, native \in NativeResults : replaceState(e, native)
    \/ \E replace \in BOOLEAN : setParams(GreenTomato, replace, "undefined")

SpecRegistry == InitRegistry /\ [][NextRegistry]_vars

\* SpecUpdater: one component renders, reading any keys, and calls setParams
\* once with a function.
InitUpdater == InitWith(HookEntries)

NextUpdater ==
    \/ status["A"] = "unmounted" /\ \E reads \in SUBSET Keys, enumerate \in BOOLEAN :
                                        Render("A", reads, enumerate)
    \/ Effect("A")
    \/ NoWriteYet /\ \E u \in Updaters, replace \in BOOLEAN : setParamsUpdater(u, replace, "undefined")

SpecUpdater == InitUpdater /\ [][NextUpdater]_vars

\* SpecLoad: the module is evaluated up to MaxLoads times; two components,
\* each calling the hook of any evaluation, read tomato; other code calls
\* history.pushState / replaceState and the browser goes back and forward.
NextLoad ==
    \/ loadModule
    \/ \E s \in Subs : Render(s, {"tomato"}, FALSE)
    \/ \E s \in Subs : Effect(s)
    \/ \E s \in Subs : Unmount(s)
    \/ \E e \in RegistryEntries : pushState(e, "undefined")
    \/ \E e \in RegistryEntries : replaceState(e, "undefined")
    \/ \E d \in {0, 2} : popstate(d)

SpecLoad == InitRegistry /\ [][NextLoad]_vars

\* SpecFailure: setLocation called once with a url string that new URL
\* rejects, or with a well-formed one, on a page with any history of at most
\* MaxHist entries.
NextFailure ==
    \/ status["A"] = "unmounted" /\ \E reads \in SUBSET {"tomato"} : Render("A", reads, FALSE)
    \/ Effect("A")
    \/ NoWriteYet /\ \E t \in MalformedTargets \cup StringTargets, m \in TomatoMappings,
                        replace \in BOOLEAN : setLocation(t, m, replace, "undefined")

SpecFailure == InitLocation /\ [][NextFailure]_vars

\* SpecFault: two components that read tomato, and calls of
\* history.pushState / replaceState during which no callback, or the callback
\* of one registered component, throws.
NextFault ==
    \/ \E s \in Subs : Render(s, {"tomato"}, FALSE)
    \/ \E s \in Subs : Effect(s)
    \/ \E s \in Subs : Unmount(s)
    \/ \E e \in RegistryEntries : pushState(e, "undefined")
    \/ \E e \in RegistryEntries : replaceState(e, "undefined")
    \/ \E e \in RegistryEntries, replace \in BOOLEAN, f \in Subs : callThrowing(replace, e, f)

SpecFault == InitRegistry /\ [][NextFault]_vars

\* SpecApply: appendQueryParamsToURL as a function of the URL and the
\* mapping. Init draws the URL; mergeParams applies any mapping to it, then
\* the same mapping to the result, again and again.
NextApply ==
    \/ status["A"] = "unmounted" /\ Render("A", {}, FALSE)
    \/ Effect("A")
    \/ \E m \in Mappings, replace \in BOOLEAN :
          /\ lastWrite.op = "none" \/ m = lastWrite.arg
          /\ mergeParams(m, replace, "undefined")

SpecApply == InitWrite /\ [][NextApply]_vars

\* SpecRemove: removeParams as a function of the page URL and paramKeys. Init
\* draws a URL of up to MaxPairs + 1 pairs, one component mounts, and
\* removeParams is applied once, with paramKeys in each of its forms.
RemoveEntries == [path : Paths, query : QueriesUpTo(MaxPairs + 1)]

InitRemove == InitWith(RemoveEntries)

NextRemove ==
    \/ status["A"] = "unmounted" /\ Render("A", {}, FALSE)
    \/ Effect("A")
    \/ NoWriteYet /\ \E pk \in ParamKeys, replace \in BOOLEAN : removeParams(pk, replace, "undefined")

SpecRemove == InitRemove /\ [][NextRemove]_vars

\* ------------------------------------------------------------ the claims

\* a step that ran a notification pass (pushState, replaceState or popstate)
NavStep == lastPass'.seq # lastPass.seq

\* the query of the page after the step
NextQuery == hist'[idx'].query

Registered(s) == status[s] = "subscribed" /\ InSeq(s, listeners)

\* the step asked s to re-render: handle cleared its read-set and dispatched
Refreshed(s) == pending'[s] /\ watching'[s] = NoWatch

\* the step left s alone
Untouched(s) == pending'[s] = pending[s] /\ watching'[s] = watching[s]

\* C1: for a registered subscription whose read-set holds exactly one key k
\* and that has no re-render pending, a navigation that leaves the value list
\* of k as it was requests no re-render, and one that changes the list of k
\* requests a re-render.
C1_ReadRefreshCorrelation ==
    [][\A s \in Subs, k \in Keys :
         (NavStep /\ Registered(s) /\ ~pending[s] /\ DOMAIN watching[s] = {k})
         => IF getAll(NextQuery, k) = getAll(CurrentQuery, k)
            THEN Untouched(s) ELSE Refreshed(s)]_vars

\* C4: a registered subscription with an empty read-set is not asked to
\* re-render by a navigation, and its read-set stays empty.
C4_NoReadQuiescence ==
    [][\A s \in Subs :
         (NavStep /\ Registered(s) /\ watching[s] = NoWatch) => Untouched(s)]_vars

\* C4 witness: a pass invoked a registered subscription that has read nothing
\* and whose last render saw another query than the page has now.
C4_Witness ==
    /\ Registered("A") /\ watching["A"] = NoWatch /\ ~pending["A"]
    /\ lastPass.invoked = <<"A">>
    /\ snap["A"] # CurrentQuery

\* C2: a registered subscription whose read-set is what enumerating all
\* parameters of its last render recorded (every key of that query, no other)
\* is asked to re-render by a navigation that adds a key the page did not have.
C2_EnumerationSeesNewKey ==
    [][\A s \in Subs, x \in Keys :
         (/\ NavStep /\ Registered(s) /\ ~pending[s]
          /\ snap[s] = CurrentQuery
          /\ entryKeys(snap[s]) # {}
          /\ DOMAIN watching[s] = entryKeys(snap[s])
          /\ ~has(CurrentQuery, x) /\ has(NextQuery, x))
         => Refreshed(s)]_vars

\* C3: a registered subscription whose last render enumerated all parameters
\* (every key of the query it rendered is in its read-set) is asked to
\* re-render by a navigation that removes a key that query had.
C3_EnumerationSeesRemovedKey ==
    [][\A s \in Subs, x \in Keys :
         (/\ NavStep /\ Registered(s) /\ ~pending[s]
          /\ entryKeys(snap[s]) \subseteq DOMAIN watching[s]
          /\ has(snap[s], x) /\ has(CurrentQuery, x) /\ ~has(NextQuery, x))
         => Refreshed(s)]_vars

\* a step that moved the page to another entry of an unchanged history: what
\* the browser does on back / forward before it fires popstate
PopStep == hist' = hist /\ idx' # idx

\* C10: on a back / forward navigation every registered listener is invoked,
\* after the page has moved to the entry, and every registered subscription
\* whose read-set holds a key with another value list than that entry has is
\* asked to re-render.
C10_PopstateObserved ==
    [][PopStep =>
         /\ lastPass'.seq # lastPass.seq
         /\ lastPass'.invoked = listeners
         /\ lastPass'.seen = NextQuery
         /\ \A s \in Subs :
              (Registered(s) /\ \E k \in DOMAIN watching[s] :
                                    watching[s][k] # getAll(NextQuery, k))
              => Refreshed(s)]_vars

\* C10 witness: the page went back to an entry whose query differs from the
\* one after it, the pass of that move invoked A, and A was asked to re-render.
C10_Witness ==
    /\ idx < Len(hist)
    /\ hist[idx].query # hist[idx + 1].query
    /\ lastPass.invoked = <<"A">> /\ lastPass.seen = CurrentQuery
    /\ Registered("A") /\ pending["A"] /\ watching["A"] = NoWatch
    /\ snap["A"] = hist[idx + 1].query

\* the values an InputParams object gives key k: those of its entry, none
\* when it has no entry for k
mappingValues(m, k) ==
    IF \E i \in 1..Len(m) : m[i].key = k
    THEN usableValues(m[CHOOSE i \in 1..Len(m) : m[i].key = k].input)
    ELSE <<>>

\* the key=value pairs of an InputParams object, entry after entry
RECURSIVE mappingPairs(_)
mappingPairs(m) ==
    IF m = <<>> THEN <<>>
    ELSE [i \in 1..Len(usableValues(Head(m).input)) |->
             <<Head(m).key, usableValues(Head(m).input)[i]>>] \o mappingPairs(Tail(m))

NextPath == hist'[idx'].path

\* a step that called a writer of the hook
WriteStep == lastWrite'.n # lastWrite.n

\* C5: after setParams(mapping) the query of the page is the pairs of the
\* mapping, key after key in the mapping's order and value after value in each
\* key's order (a single string as one value); so every key has exactly the
\* mapping's values, a key absent from the mapping has none, and the path is
\* the one the page had.
C5_SetParamsFullReplace ==
    [][(WriteStep /\ lastWrite'.op = "setParams")
         => LET m == lastWrite'.arg
            IN /\ NextQuery = mappingPairs(m)
               /\ \A k \in Keys : getAll(NextQuery, k) = mappingValues(m, k)
               /\ \A k \in Keys : (has(CurrentQuery, k) /\ mappingValues(m, k) = <<>>)
                                     => ~has(NextQuery, k)
               /\ NextPath = hist[idx].path]_vars

\* C5 witness: setParams took the page from a query with both keys, on the
\* longer path, to a query that holds tomato alone with two values.
C5_Witness ==
    /\ lastWrite.op = "setParams" /\ ~lastWrite.replace
    /\ idx = 2
    /\ hist[1].path = <<"a", "x">> /\ hist[2].path = <<"a", "x">>
    /\ has(hist[1].query, "potato") /\ has(hist[1].query, "tomato")
    /\ hist[2].query = <<<<"tomato", "GREEN">>, <<"tomato", "RED">>>>
    /\ Registered("A")

\* C6: after mergeParams(mapping) the query of the page is the pairs of the
\* keys absent from the mapping, in the order they had, followed by the pairs
\* of the mapping in its order; the path is the one the page had.
C6_MergeKeepsOthersAppendsNew ==
    [][(WriteStep /\ lastWrite'.op = "mergeParams")
         => LET m == lastWrite'.arg
            IN /\ NextQuery =
                    SelectSeq(CurrentQuery, LAMBDA p : \A i \in 1..Len(m) : m[i].key # p[1])
                    \o mappingPairs(m)
               /\ NextPath = hist[idx].path]_vars

\* C6 witness: tomato=RED&potato=RED was merged with a mapping of tomato
\* alone, leaving potato in front of the new value of tomato.
C6_Witness ==
    /\ lastWrite.op = "mergeParams" /\ Len(lastWrite.arg) = 1
    /\ idx = 2
    /\ hist[1].query = <<<<"tomato", "RED">>, <<"potato", "RED">>>>
    /\ hist[2].query = <<<<"potato", "RED">>, <<"tomato", "GREEN">>>>
    /\ Registered("A")

SameOrigin(u) == u.host = PageHost /\ u.protocol = PageProtocol

EntryOf(u) == [path |-> u.path, query |-> u.query]

\* the step overwrote the current entry by e: same number of entries, same
\* position, the other entries as they were
Replaced(e) ==
    /\ Len(hist') = Len(hist)
    /\ idx' = idx
    /\ hist'[idx] = e
    /\ \A i \in 1..Len(hist) : i # idx => hist'[i] = hist[i]

\* the step added e as one new entry after the current one, which stays where
\* it was: going back from e returns to it
Pushed(e) ==
    /\ idx' = idx + 1
    /\ Len(hist') = idx + 1
    /\ hist'[idx'] = e
    /\ \A i \in 1..idx : hist'[i] = hist[i]

\* C7: a write (setLocation, setParams, mergeParams, removeParams) whose nextURL is
\* same-origin overwrites the current history entry when replace is true (the
\* number of entries is unchanged), and adds exactly one entry after the
\* current one when replace is false (the entry before the new one is the
\* previous URL).
C7_PushVersusReplace ==
    [][(WriteStep /\ SameOrigin(lastWrite'.nextURL))
         => IF lastWrite'.replace
            THEN Replaced(EntryOf(lastWrite'.nextURL))
            ELSE Pushed(EntryOf(lastWrite'.nextURL))]_vars

\* C7 witness: a write pushed from the first of two entries: the entry that
\* was after it is gone, the new one is on another path, and the pass of the
\* call invoked A.
C7_Witness ==
    /\ lastWrite.op = "setLocation" /\ ~lastWrite.replace
    /\ Len(hist) = 2 /\ idx = 2
    /\ hist[1].path # hist[2].path
    /\ lastPass.seq = 1 /\ lastPass.invoked = <<"A">>
    /\ lastPass.seen = CurrentQuery

\* the step left the page by assigning u to window.location.href and called
\* neither pushState nor replaceState
FullPageNavigation(u) ==
    /\ assigned' = u
    /\ hist' = hist /\ idx' = idx
    /\ lastPass' = lastPass

\* the step went through the history API to u and assigned nothing
HistoryNavigation(u) ==
    /\ assigned' = <<>>
    /\ lastPass'.seq # lastPass.seq
    /\ hist'[idx'] = EntryOf(u)

\* C8: setLocation with a nextURL whose protocol or host is not the page's
\* assigns window.location.href and calls neither pushState nor replaceState;
\* with a same-origin nextURL it goes through the history API and assigns
\* nothing.
C8_CrossOriginFallback ==
    [][(WriteStep /\ lastWrite'.op = "setLocation")
         => IF lastWrite'.nextURL.protocol # PageProtocol \/ lastWrite'.nextURL.host # PageHost
            THEN FullPageNavigation(lastWrite'.nextURL)
            ELSE HistoryNavigation(lastWrite'.nextURL)]_vars

\* C8 witness: setLocation left the page for a URL on the page's own host
\* with another protocol, with no notification pass run and A registered.
C8_Witness ==
    /\ lastWrite.op = "setLocation"
    /\ assigned # <<>>
    /\ assigned.host = PageHost /\ assigned.protocol # PageProtocol
    /\ lastPass.seq = 0
    /\ Registered("A")

\* a call of the wrapped history.pushState or history.replaceState
CallStep == hist' # hist \/ (lastPass'.seq # lastPass.seq /\ idx' = idx)

\* C9: during a call of history.pushState / replaceState the listeners run
\* after the native function (they see the query of the new URL), every
\* listener of the registry is invoked, in registry order, each deciding on
\* the new URL, and the call returns what the native function returned.
C9_SynchronousOrderedFanOut ==
    [][CallStep =>
         /\ lastPass'.seq # lastPass.seq
         /\ lastPass'.seen = NextQuery
         /\ lastPass'.invoked = listeners
         /\ \A s \in Subs : InSeq(s, listeners) =>
              IF \E k \in DOMAIN watching[s] : watching[s][k] # getAll(NextQuery, k)
              THEN Refreshed(s) ELSE Untouched(s)
         /\ lastPass'.returned = lastPass'.native]_vars

\* C9 witness: a call whose native function returned a value of its own ran
\* both listeners, A first; B was asked to re-render and A was not.
C9_Witness ==
    /\ lastPass.invoked = <<"A", "B">>
    /\ lastPass.native = "wrapped" /\ lastPass.returned = "wrapped"
    /\ lastPass.seen = CurrentQuery
    /\ pending["B"] /\ watching["B"] = NoWatch
    /\ ~pending["A"] /\ DOMAIN watching["A"] = {"tomato"}

\* how many times s is in the registry
Occurrences(s, ls) == Cardinality({i \in 1..Len(ls) : ls[i] = s})

\* the registry holds the callback of every instance whose effect has run and
\* whose cleanup has not, once, and no other
RegistryExact ==
    \A s \in Subs : Occurrences(s, listeners) = (IF status[s] = "subscribed" THEN 1 ELSE 0)

\* C11: at every moment the registry holds exactly the callbacks of the
\* subscriptions in place (effect run, cleanup not run), each once; the
\* callback of an unmounted component is not in the registry, and a
\* navigation neither invokes it nor requests a re-render of it.
C11_SubscriptionTeardown ==
    /\ RegistryExact
    /\ [][/\ RegistryExact'
          /\ \A s \in Subs :
               (status[s] = "subscribed" /\ status'[s] = "unmounted") => ~InSeq(s, listeners')
          /\ NavStep => \A s \in Subs :
               status[s] = "unmounted"
               => ~InSeq(s, lastPass'.invoked) /\ ~pending'[s] /\ watching'[s] = NoWatch]_vars

\* C11 witness: A is unmounted and B alone is in the registry; the pass of the
\* last navigation invoked B alone and asked B to re-render.
C11_Witness ==
    /\ status["A"] = "unmounted" /\ ~pending["A"]
    /\ listeners = <<"B">>
    /\ lastPass.invoked = <<"B">> /\ lastPass.seen = CurrentQuery
    /\ pending["B"] /\ watching["B"] = NoWatch

\* C12: setParams called by a registered subscription with the updater
\* params => ({...params, [k]: v}), which reads every current parameter and
\* changes k alone, adds no key to the read-set of that subscription and, when
\* its read-set does not hold k, does not ask it to re-render.
C12_UpdaterNonInterference ==
    [][(WriteStep /\ lastWrite'.op = "setParamsUpdater")
         => LET u == lastWrite'.arg
            IN Registered(u.by)
               => /\ DOMAIN watching'[u.by] \subseteq DOMAIN watching[u.by]
                  /\ u.sets \notin DOMAIN watching[u.by] => Untouched(u.by)]_vars

\* every callback of the registries was invoked once by the pass of the step,
\* and no other callback was
EachListenerOnce ==
    \A s \in Subs : Occurrences(s, lastPass'.invoked) = (IF InSeq(s, listeners) THEN 1 ELSE 0)

ConstructionFailed == WriteStep /\ lastWrite'.nextURL = NoURL

\* C14: when the construction of the URL fails during a write, no exception
\* reaches the caller, and the URL, the history, the registry, every
\* subscription's state and the record of the last notification pass are as
\* they were (no listener was notified, nothing was navigated).
C14_FailedWriteNoTrace ==
    [][ConstructionFailed
         => /\ ~lastWrite'.threw
            /\ UNCHANGED <<hist, idx, listeners, status, watching, snap, pending, lastPass,
                           assigned>>]_vars

\* C15: when a callback fails during a notification pass, every callback
\* that was in the registry at the start of the pass is invoked in that pass,
\* and the call that triggered the pass returns what the native function
\* returned.
C15_FaultIsolation ==
    [][(NavStep /\ lastPass'.failed # {})
         => /\ \A s \in Subs : InSeq(s, listeners) => InSeq(s, lastPass'.invoked)
            /\ lastPass'.returned = lastPass'.native]_vars

\* C16: the query mergeParams leaves is appendQueryParamsToURL of the query
\* it found and the mapping (equal URLs and mappings give equal results);
\* applying the mapping to that result again leaves it as it is, and so does
\* applying it twice to any query the page can have.
C16_ApplyIdempotent ==
    [][(WriteStep /\ lastWrite'.op = "mergeParams")
         => LET m == lastWrite'.arg
            IN /\ NextQuery = appendQueryParamsToURL(CurrentQuery, m)
               /\ appendQueryParamsToURL(NextQuery, m) = NextQuery
               /\ (lastWrite.op = "mergeParams" /\ lastWrite.arg = m) => NextQuery = CurrentQuery
               /\ NextPath = hist[idx].path]_vars

\* C16 witness: tomato=RED&potato=RED was merged with {tomato: 'GREEN'} by a
\* push, then with the same mapping by a replace: the second entry is what
\* the first application made.
C16_Witness ==
    /\ lastWrite.op = "mergeParams" /\ lastWrite.n = 0 /\ lastWrite.replace
    /\ Len(lastWrite.arg) = 1 /\ lastWrite.arg[1].key = "tomato"
    /\ Len(hist) = 2 /\ idx = 2
    /\ hist[1].query = <<<<"tomato", "RED">>, <<"potato", "RED">>>>
    /\ hist[2].query = <<<<"potato", "RED">>, <<"tomato", "GREEN">>>>

\* the read-set of s holds a key whose recorded list is not the list the
\* query q has for it
Differs(s, q) == \E k \in DOMAIN watching[s] : watching[s][k] # getAll(q, k)

\* C17: in a notification pass the callback of a registered subscription is
\* invoked once; when its read-set holds a key whose recorded values are not
\* those of the new URL, the read-set is emptied and a re-render is
\* requested; otherwise the read-set and the pending re-render are exactly
\* as they were.
C17_NotificationEffect ==
    [][NavStep => \A s \in Subs : Registered(s) =>
         /\ Occurrences(s, lastPass'.invoked) = 1
         /\ IF Differs(s, NextQuery)
            THEN watching'[s] = NoWatch /\ pending'[s]
            ELSE watching'[s] = watching[s] /\ pending'[s] = pending[s]]_vars

\* C17 witness: a pass invoked A after potato was added to the URL; A, which
\* recorded tomato alone and whose tomato is as recorded, was left as it was.
C17_Witness ==
    /\ Registered("A") /\ ~pending["A"]
    /\ lastPass.invoked = <<"A">> /\ lastPass.seen = CurrentQuery
    /\ DOMAIN watching["A"] = {"tomato"}
    /\ watching["A"]["tomato"] = <<"RED">>
    /\ ~Differs("A", CurrentQuery)
    /\ has(CurrentQuery, "potato") /\ ~has(snap["A"], "potato")

\* C18: a key that a step adds to a read-set (a read of that key through
\* getParam, getParams, hasParam or allParams, in a render or in an event
\* handler) is recorded with the value list the page URL has for it at that
\* moment.
C18_NoStaleRead ==
    [][\A s \in Subs, k \in Keys :
         (k \notin DOMAIN watching[s] /\ k \in DOMAIN watching'[s])
         => watching'[s][k] = getAll(NextQuery, k)]_vars

\* C19: a registered subscription with no re-render pending has every key of
\* its read-set recorded with the value list of the current URL.
C19_NoLostUpdate ==
    \A s \in Subs :
        (Registered(s) /\ ~pending[s])
        => \A k \in DOMAIN watching[s] : watching[s][k] = getAll(CurrentQuery, k)

\* the keys a paramKeys argument names: the key, the keys of the list, the
\* keys of the object whose value is true
namedKeys(pk) ==
    IF pk.form = "key" THEN {pk.key}
    ELSE IF pk.form = "list" THEN {pk.keys[i] : i \in 1..Len(pk.keys)}
    ELSE {pk.entries[i].key : i \in {j \in 1..Len(pk.entries) : pk.entries[j].value}}

\* C20: after removeParams(paramKeys) the query of the page is the query it
\* had without the pairs of the named keys, the other pairs in the order
\* they had; no named key is left, every other key has the values it had,
\* the path is the one the page had, and when no named key was present the
\* query is the one the page had.
C20_RemoveParamsFrame ==
    [][(WriteStep /\ lastWrite'.op = "removeParams")
         => LET named == namedKeys(lastWrite'.arg)
            IN /\ NextQuery = SelectSeq(CurrentQuery, LAMBDA p : p[1] \notin named)
               /\ \A k \in Keys : getAll(NextQuery, k) =
                                      (IF k \in named THEN <<>> ELSE getAll(CurrentQuery, k))
               /\ NextPath = hist[idx].path
               /\ (named \cap entryKeys(CurrentQuery) = {}) => NextQuery = CurrentQuery]_vars

\* C20 witness: removeParams({potato: false, tomato: true}) pushed, from
\* tomato=RED&potato=RED&tomato=GREEN on the longer path, the URL that holds
\* potato alone.
C20_Witness ==
    /\ lastWrite.op = "removeParams" /\ lastWrite.arg.form = "object"
    /\ Len(lastWrite.arg.entries) = 2
    /\ ~lastWrite.arg.entries[1].value /\ lastWrite.arg.entries[2].value
    /\ Len(hist) = 2 /\ idx = 2
    /\ hist[1] = [path |-> <<"a", "x">>,
                  query |-> <<<<"tomato", "RED">>, <<"potato", "RED">>, <<"tomato", "GREEN">>>>]
    /\ hist[2] = [path |-> <<"a", "x">>, query |-> <<<<"potato", "RED">>>>]
    /\ Registered("A")

====
